---- MODULE Spec2Model ----
(***************************************************************************)
(* A model of chip_estimates_utils.py: the Monte Carlo engine              *)
(* estimate_chip_sales, the share normaliser normalize_shares and the      *)
(* summary table summarize_quarterly_by_chip.                              *)
(*                                                                         *)
(* Numbers are exact rationals <<n, d>> with d > 0, in lowest terms; the   *)
(* rounding of binary floating point is not modelled.  <<0, 0>> stands for *)
(* a value that is no number (an unset local, or a NaN).                   *)
(***************************************************************************)
EXTENDS Integers, Sequences, FiniteSets, TLC

\* ------------------------------------------------------------ bounds
\* largest n_samples a run is started with
MaxSamples == 2

\* largest number of (trial, quarter) pairs of a run: n_samples * len(quarters)
MaxPairs == 4

\* ------------------------------------------------------------ numbers
Abs(x) == IF x < 0 THEN -x ELSE x

RECURSIVE GCD(_, _)
GCD(a, b) == IF b = 0 THEN a ELSE GCD(b, a % b)

NaN == <<0, 0>>

IsNum(x) == x[2] > 0

\* the rational n/d (d # 0) in lowest terms with a positive denominator
Rat(n, d) ==
    LET g == GCD(Abs(n), Abs(d))
        s == IF d < 0 THEN -1 ELSE 1
    IN  <<(s * n) \div g, (s * d) \div g>>

Num(n) == <<n, 1>>

RatAdd(x, y) == Rat(x[1] * y[2] + y[1] * x[2], x[2] * y[2])

RatMul(x, y) == Rat(x[1] * y[1], x[2] * y[2])

\* x / y for y # 0
RatDiv(x, y) == Rat(x[1] * y[2], x[2] * y[1])

RatGt0(x) == x[1] > 0

RatGe0(x) == x[1] >= 0

\* the elements of a sequence
Range(s) == {s[k] : k \in 1..Len(s)}

\* ------------------------------------------------------------ inputs
\* the quarters and versions arguments: lists without repeated entries, as
\* the table is keyed by them; "X" is a variant no run declares
QuarterLists == {<<"Q1">>, <<"Q2", "Q1">>}

VersionLists == {<<"A", "B">>, <<"A", "B", "C">>}

\* what sample_revenue may return
RevenueVals == {Num(1000), Num(-1000)}

\* what sample_shares may return: a normal split of A and B; or a zero
\* share for A, a negative share for B and a share for the undeclared X.
\* No map holds the declared variant C.
ShareMaps ==
    { [v \in {"A", "B"} |-> IF v = "A" THEN Rat(3, 5) ELSE Rat(2, 5)],
      [v \in {"A", "B", "X"} |->
          IF v = "A" THEN Num(0) ELSE IF v = "B" THEN Rat(-1, 2) ELSE Rat(1, 2)] }

\* what sample_price may return (a price of 0, which makes line 46 divide by
\* zero, is not drawn)
PriceVals == {Num(10), Num(20)}

\* ------------------------------------------------------------ state
VARIABLES
    quarters,    \* estimate_chip_sales: the quarters argument
    versions,    \* the versions argument
    n_samples,   \* the n_samples argument
    results,     \* results[quarter][version]: the list of samples
    trial,       \* the trial being run, 1..n_samples (the loop of line 37)
    qi,          \* position in quarters of the quarter being run (line 38)
    vi,          \* number of versions handled for that quarter (line 42)
    revenue,     \* the local revenue
    shares,      \* the local shares
    calls,       \* the callback invocations made so far, in order
    pc,          \* where the run is
    raw_shares,  \* normalize_shares: the dict passed as raw_shares
    passed,      \* the content of that dict when the call was made
    weight_type, \* the type of its values: "float" or "numpy.float64"
    n_total,     \* the local total
    normalized,  \* the dict returned
    npc,         \* where the call is
    s_results,   \* summarize_quarterly_by_chip: the results argument
    rows,        \* the local rows
    row,         \* the local row
    s_total,     \* the local total
    s_qi,        \* number of quarters entered (line 168)
    s_ci,        \* number of chip types handled for that quarter (line 172)
    spc          \* where the call is

engineVars == <<quarters, versions, n_samples, results, trial, qi, vi, revenue,
                shares, calls, pc>>

normVars == <<raw_shares, passed, weight_type, n_total, normalized, npc>>

summVars == <<s_results, rows, row, s_total, s_qi, s_ci, spc>>

vars == <<engineVars, normVars, summVars>>

\* the variables of a function that is not called
EngineIdle ==
    /\ quarters = <<>>
    /\ versions = <<>>
    /\ n_samples = 0
    /\ results = <<>>
    /\ trial = 0
    /\ qi = 0
    /\ vi = 0
    /\ revenue = NaN
    /\ shares = <<>>
    /\ calls = <<>>
    /\ pc = "idle"

NormIdle ==
    /\ raw_shares = <<>>
    /\ passed = <<>>
    /\ weight_type = "float"
    /\ n_total = NaN
    /\ normalized = <<>>
    /\ npc = "idle"

SummIdle ==
    /\ s_results = <<>>
    /\ rows = <<>>
    /\ row = <<>>
    /\ s_total = <<>>
    /\ s_qi = 0
    /\ s_ci = 0
    /\ spc = "idle"

\* ------------------------------------------------------------ estimate_chip_sales
\* results = {quarter: {version: [] ...} ...}
EmptyResults(qs, vs) == [q \in Range(qs) |-> [v \in Range(vs) |-> <<>>]]

\* (a variant of QuarterAt: the quarters are visited last to first)
QuarterAtReversed(k) == quarters[Len(quarters) + 1 - k]

\* for quarter in quarters: the k-th quarter visited
QuarterAt(k) == quarters[k]

\* (a variant of LoopVersions: the keys of the share map are visited too)
LoopVersionsAndShareKeys(m) ==
    IF "X" \in DOMAIN m THEN Append(versions, "X") ELSE versions

\* for version in versions: the versions visited for one quarter
LoopVersions(m) == versions

\* (a variant of GetShare: shares.get(version, 1))
GetShareDefaultOne(m, v) == IF v \in DOMAIN m THEN m[v] ELSE Num(1)

\* shares.get(version, 0)
GetShare(m, v) == IF v \in DOMAIN m THEN m[v] ELSE Num(0)

\* (variants of SharePositive: share >= 0, and share != 0)
ShareNotNegative(share) == RatGe0(share)

ShareNotZero(share) == share[1] # 0

\* if share > 0
SharePositive(share) == RatGt0(share)

\* (a variant of Chips: the share is left out)
ChipsWithoutShare(r, share, price) == RatDiv(r, price)

\* chips = (revenue * share) / price
Chips(r, share, price) == RatDiv(RatMul(r, share), price)

\* (a variant of AppendChips: a zero is not recorded)
AppendChipsUnlessZero(res, q, v, chips) ==
    IF chips[1] = 0 THEN res ELSE [res EXCEPT ![q][v] = Append(@, chips)]

\* results[quarter][version].append(chips)
AppendChips(res, q, v, chips) == [res EXCEPT ![q][v] = Append(@, chips)]

RevenueCall(t, q, r) == [fn |-> "revenue", trial |-> t, quarter |-> q, version |-> "-", ret |-> r, map |-> <<>>]

SharesCall(t, q, m) == [fn |-> "shares", trial |-> t, quarter |-> q, version |-> "-", ret |-> NaN, map |-> m]

PriceCall(t, q, v, p) == [fn |-> "price", trial |-> t, quarter |-> q, version |-> v, ret |-> p, map |-> <<>>]

InitEngine ==
    /\ quarters \in QuarterLists
    /\ versions \in VersionLists
    /\ n_samples \in 0..MaxSamples
    /\ n_samples * Len(quarters) <= MaxPairs
    /\ results = EmptyResults(quarters, versions)
    /\ trial = 0
    /\ qi = 0
    /\ vi = 0
    /\ revenue = NaN
    /\ shares = <<>>
    /\ calls = <<>>
    /\ pc = "trials"
    /\ NormIdle
    /\ SummIdle

\* for _ in range(n_samples): the next trial, or return results
NextTrial ==
    /\ pc = "trials"
    /\ IF trial < n_samples
       THEN /\ trial' = trial + 1
            /\ qi' = 0
            /\ pc' = "quarters"
       ELSE /\ pc' = "done"
            /\ UNCHANGED <<trial, qi>>
    /\ UNCHANGED <<quarters, versions, n_samples, results, vi, revenue, shares, calls>>
    /\ UNCHANGED <<normVars, summVars>>

\* for quarter in quarters: the loop is exhausted
QuartersDone ==
    /\ pc = "quarters"
    /\ qi >= Len(quarters)
    /\ pc' = "trials"
    /\ UNCHANGED <<quarters, versions, n_samples, results, trial, qi, vi, revenue, shares, calls>>
    /\ UNCHANGED <<normVars, summVars>>

\* the next quarter: revenue = sample_revenue(quarter)
SampleRevenue ==
    /\ pc = "quarters"
    /\ qi < Len(quarters)
    /\ \E r \in RevenueVals :
         /\ revenue' = r
         /\ calls' = Append(calls, RevenueCall(trial, QuarterAt(qi + 1), r))
    /\ qi' = qi + 1
    /\ pc' = "shares"
    /\ UNCHANGED <<quarters, versions, n_samples, results, trial, vi, shares>>
    /\ UNCHANGED <<normVars, summVars>>

\* shares = sample_shares(quarter)
SampleShares ==
    /\ pc = "shares"
    /\ \E m \in ShareMaps :
         /\ shares' = m
         /\ calls' = Append(calls, SharesCall(trial, QuarterAt(qi), m))
    /\ vi' = 0
    /\ pc' = "versions"
    /\ UNCHANGED <<quarters, versions, n_samples, results, trial, qi, revenue>>
    /\ UNCHANGED <<normVars, summVars>>

\* one pass of the loop over versions with share > 0: a price is sampled
VersionPriced ==
    /\ pc = "versions"
    /\ vi < Len(LoopVersions(shares))
    /\ LET q == QuarterAt(qi)
           v == LoopVersions(shares)[vi + 1]
           share == GetShare(shares, v)
       IN  /\ SharePositive(share)
           /\ \E price \in PriceVals :
                /\ calls' = Append(calls, PriceCall(trial, q, v, price))
                /\ results' = AppendChips(results, q, v, Chips(revenue, share, price))
    /\ vi' = vi + 1
    /\ UNCHANGED <<quarters, versions, n_samples, trial, qi, revenue, shares, pc>>
    /\ UNCHANGED <<normVars, summVars>>

\* one pass of the loop over versions with share <= 0: chips = 0
VersionZero ==
    /\ pc = "versions"
    /\ vi < Len(LoopVersions(shares))
    /\ LET q == QuarterAt(qi)
           v == LoopVersions(shares)[vi + 1]
           share == GetShare(shares, v)
       IN  /\ ~SharePositive(share)
           /\ results' = AppendChips(results, q, v, Num(0))
    /\ vi' = vi + 1
    /\ UNCHANGED <<quarters, versions, n_samples, trial, qi, revenue, shares, calls, pc>>
    /\ UNCHANGED <<normVars, summVars>>

\* for version in versions: the loop is exhausted
VersionsDone ==
    /\ pc = "versions"
    /\ vi >= Len(LoopVersions(shares))
    /\ pc' = "quarters"
    /\ UNCHANGED <<quarters, versions, n_samples, results, trial, qi, vi, revenue, shares, calls>>
    /\ UNCHANGED <<normVars, summVars>>

NextEngine ==
    \/ NextTrial
    \/ QuartersDone
    \/ SampleRevenue
    \/ SampleShares
    \/ VersionPriced
    \/ VersionZero
    \/ VersionsDone

SpecEngine == InitEngine /\ [][NextEngine]_vars

\* ------------------------------------------------------------ the record of a run
\* position of quarter q in quarters, of version v in versions (0: not in it)
QuarterPos(q) == IF q \in Range(quarters) THEN CHOOSE k \in 1..Len(quarters) : quarters[k] = q ELSE 0

VersionPos(v) == IF v \in Range(versions) THEN CHOOSE k \in 1..Len(versions) : versions[k] = v ELSE 0

CallsOf(fn, t, q, v) ==
    {k \in 1..Len(calls) : /\ calls[k].fn = fn
                           /\ calls[k].trial = t
                           /\ calls[k].quarter = q
                           /\ calls[k].version = v}

CountOf(fn) == Cardinality({k \in 1..Len(calls) : calls[k].fn = fn})

\* the revenue, the share map and the price drawn for a trial and quarter
RevenueOf(t, q) ==
    LET S == CallsOf("revenue", t, q, "-")
    IN  IF S = {} THEN NaN ELSE calls[CHOOSE k \in S : TRUE].ret

MapOf(t, q) ==
    LET S == CallsOf("shares", t, q, "-")
    IN  IF S = {} THEN <<>> ELSE calls[CHOOSE k \in S : TRUE].map

PriceOf(t, q, v) ==
    LET S == CallsOf("price", t, q, v)
    IN  IF S = {} THEN NaN ELSE calls[CHOOSE k \in S : TRUE].ret

\* the share of a version in a share map: the map's value, 0 if absent
ShareIn(m, v) == IF v \in DOMAIN m THEN m[v] ELSE <<0, 1>>

\* the share looked up for a version in a trial and quarter
ShareOf(t, q, v) == ShareIn(MapOf(t, q), v)

\* the sample of trial t is in the list of (q, v)
IsFilled(q, v, t) ==
    /\ q \in DOMAIN results
    /\ v \in DOMAIN results[q]
    /\ t <= Len(results[q][v])

Returned == pc = "done"

\* ------------------------------------------------------------ claims: estimate_chip_sales
\* C1: when a run with n_samples = N returns, every (quarter, version) list
\* of the table has exactly N entries, zero-share cells included.
C1_LengthIsTrialCount ==
    Returned =>
        \A q \in Range(quarters) : \A v \in Range(versions) :
            Len(results[q][v]) = n_samples

C1_Witness ==
    /\ Returned
    /\ n_samples = 2
    /\ \E q \in Range(quarters) : \E v \in Range(versions) :
         /\ Len(results[q][v]) = 2
         /\ ShareOf(1, q, v) = <<0, 1>>
         /\ RatGt0(ShareOf(2, q, v))

\* C2: in a run that returns, sample_revenue and sample_shares have each been
\* called once per (trial, quarter), N*P times in all; sample_price has been
\* called once for each (trial, quarter, declared version) whose share is > 0
\* and for nothing else; at no point has a call site been called twice.
C2_CallCounts ==
    /\ \A k \in 1..Len(calls) :
         /\ calls[k].fn \in {"revenue", "shares", "price"}
         /\ calls[k].trial \in 1..n_samples
         /\ calls[k].quarter \in Range(quarters)
         /\ calls[k].fn = "price" => calls[k].version \in Range(versions)
         /\ calls[k].fn = "price" => RatGt0(ShareOf(calls[k].trial, calls[k].quarter, calls[k].version))
         /\ \A l \in 1..(k - 1) :
              ~ /\ calls[l].fn = calls[k].fn
                /\ calls[l].trial = calls[k].trial
                /\ calls[l].quarter = calls[k].quarter
                /\ calls[l].version = calls[k].version
    /\ Returned =>
         /\ CountOf("revenue") = n_samples * Len(quarters)
         /\ CountOf("shares") = n_samples * Len(quarters)
         /\ \A t \in 1..n_samples : \A q \in Range(quarters) :
              LET m == MapOf(t, q)
              IN  /\ Cardinality(CallsOf("revenue", t, q, "-")) = 1
                  /\ Cardinality(CallsOf("shares", t, q, "-")) = 1
                  /\ \A v \in Range(versions) :
                       Cardinality(CallsOf("price", t, q, v)) =
                           IF RatGt0(ShareIn(m, v)) THEN 1 ELSE 0

C2_Witness ==
    /\ Returned
    /\ n_samples = 2
    /\ Len(quarters) = 2
    /\ CountOf("revenue") = 4
    /\ CountOf("shares") = 4
    /\ CountOf("price") = 2

\* the place of a call in a run: its trial, the position of its quarter, and
\* revenue before shares before the prices in the order of versions
CallKey(c) ==
    <<c.trial, QuarterPos(c.quarter),
      IF c.fn = "revenue" THEN 0 ELSE IF c.fn = "shares" THEN 1 ELSE 1 + VersionPos(c.version)>>

KeyLess(a, b) ==
    \/ a[1] < b[1]
    \/ a[1] = b[1] /\ a[2] < b[2]
    \/ a[1] = b[1] /\ a[2] = b[2] /\ a[3] < b[3]

\* C3: the calls are made trial by trial, within a trial quarter by quarter in
\* the order of the quarters argument, and for one (trial, quarter) the revenue
\* call comes first, the shares call second and the price calls after them,
\* each made once; the sample at index i of every version of a quarter is
\* computed from the one revenue and the one share map drawn for (i, quarter)
\* and from the price drawn for that version.
C3_OneDrawPerTrialAndQuarter ==
    /\ \A k \in 1..Len(calls) - 1 : KeyLess(CallKey(calls[k]), CallKey(calls[k + 1]))
    /\ \A k \in 1..Len(calls) :
         calls[k].fn = "price" =>
             /\ CallsOf("revenue", calls[k].trial, calls[k].quarter, "-") # {}
             /\ CallsOf("shares", calls[k].trial, calls[k].quarter, "-") # {}
    /\ \A t \in 1..n_samples : \A q \in Range(quarters) :
         LET r == RevenueOf(t, q)
             m == MapOf(t, q)
         IN  \A v \in Range(versions) :
                 IsFilled(q, v, t) =>
                     /\ IsNum(r)
                     /\ m # <<>>
                     /\ IF RatGt0(ShareIn(m, v))
                        THEN LET price == PriceOf(t, q, v)
                             IN  /\ IsNum(price)
                                 /\ RatMul(results[q][v][t], price) = RatMul(r, ShareIn(m, v))
                        ELSE results[q][v][t] = <<0, 1>>

C3_Witness ==
    /\ Returned
    /\ n_samples = 2
    /\ quarters = <<"Q2", "Q1">>
    /\ RevenueOf(1, "Q2") # RevenueOf(1, "Q1")
    /\ RevenueOf(1, "Q1") # RevenueOf(2, "Q1")
    /\ RatGt0(ShareOf(2, "Q1", "A"))
    /\ RatGt0(ShareOf(2, "Q1", "B"))
    /\ PriceOf(2, "Q1", "A") # PriceOf(2, "Q1", "B")

\* the share looked up is exactly 0
ZeroShare(t, q, v) == ShareOf(t, q, v) = <<0, 1>>

\* C4: a declared version whose share for (trial, quarter) is exactly 0, or
\* which the share map does not hold, gets the sample 0 and no price call;
\* when that is so in every trial of a run that returns, its list is N zeros.
C4_ZeroShareZeroFill ==
    /\ \A t \in 1..n_samples : \A q \in Range(quarters) :
         LET m == MapOf(t, q)
         IN  \A v \in Range(versions) :
                 (IsFilled(q, v, t) /\ ShareIn(m, v) = <<0, 1>>) =>
                     /\ results[q][v][t] = <<0, 1>>
                     /\ CallsOf("price", t, q, v) = {}
    /\ \A k \in 1..Len(calls) :
         calls[k].fn = "price" => ~ZeroShare(calls[k].trial, calls[k].quarter, calls[k].version)
    /\ Returned =>
         \A q \in Range(quarters) : \A v \in Range(versions) :
             (\A t \in 1..n_samples : ZeroShare(t, q, v)) =>
                 results[q][v] = [t \in 1..n_samples |-> <<0, 1>>]

C4_Witness ==
    /\ Returned
    /\ n_samples = 2
    /\ "C" \in Range(versions)
    /\ \A t \in 1..2 : "A" \in DOMAIN MapOf(t, "Q1") /\ ZeroShare(t, "Q1", "A")
    /\ results["Q1"]["A"] = <<<<0, 1>>, <<0, 1>>>>
    /\ results["Q1"]["C"] = <<<<0, 1>>, <<0, 1>>>>
    /\ CountOf("price") = 0

\* C5: at every point of a run the table's keys are the declared quarters and,
\* under each, the declared versions; a version held only by a share map gets
\* no cell and no price call.
C5_KeysAreDeclared ==
    /\ DOMAIN results = Range(quarters)
    /\ \A q \in DOMAIN results : DOMAIN results[q] = Range(versions)
    /\ \A k \in 1..Len(calls) :
         calls[k].fn = "price" => calls[k].version \in Range(versions)
    /\ \A k \in 1..Len(calls) :
         calls[k].fn = "shares" =>
             \A v \in DOMAIN calls[k].map \ Range(versions) :
                 /\ CallsOf("price", calls[k].trial, calls[k].quarter, v) = {}
                 /\ v \notin DOMAIN results[calls[k].quarter]

C5_Witness ==
    /\ Returned
    /\ n_samples >= 1
    /\ "X" \in DOMAIN MapOf(1, "Q1")
    /\ RatGt0(MapOf(1, "Q1")["X"])
    /\ "X" \notin DOMAIN results["Q1"]

\* the run of the scenario
Scenario ==
    /\ quarters = <<"Q1">>
    /\ versions = <<"A", "B">>
    /\ n_samples = 1
    /\ Returned
    /\ RevenueOf(1, "Q1") = <<1000, 1>>
    /\ MapOf(1, "Q1") = [v \in {"A", "B"} |-> IF v = "A" THEN <<3, 5>> ELSE <<2, 5>>]
    /\ PriceOf(1, "Q1", "A") = <<10, 1>>
    /\ PriceOf(1, "Q1", "B") = <<20, 1>>

\* C6: a sample of a version whose share is > 0 is revenue * share / price for
\* the revenue and share map of its (trial, quarter) and the price of its
\* (trial, quarter, version); quarters = [Q1], versions = [A, B], revenue 1000,
\* shares {A: 3/5, B: 2/5}, prices A: 10, B: 20 and N = 1 give A = [60], B = [20].
C6_UnitsFormula ==
    /\ \A t \in 1..n_samples : \A q \in Range(quarters) :
         LET r == RevenueOf(t, q)
             m == MapOf(t, q)
         IN  \A v \in Range(versions) :
                 (IsFilled(q, v, t) /\ RatGt0(ShareIn(m, v))) =>
                     LET price == PriceOf(t, q, v)
                     IN  /\ IsNum(r)
                         /\ IsNum(price)
                         /\ RatMul(results[q][v][t], price) = RatMul(r, ShareIn(m, v))
    /\ Scenario =>
         /\ results["Q1"]["A"] = << <<60, 1>> >>
         /\ results["Q1"]["B"] = << <<20, 1>> >>

C6_Witness ==
    /\ Scenario
    /\ results["Q1"]["A"] = << <<60, 1>> >>

\* the share looked up is negative
NegativeShare(t, q, v) == ShareOf(t, q, v)[1] < 0

\* C10: a version whose share is negative gets the sample 0 and no price call;
\* so while every revenue drawn is >= 0 and every price drawn is > 0, every
\* sample in the table is >= 0.
C10_NegativeShareIsZero ==
    /\ \A t \in 1..n_samples : \A q \in Range(quarters) :
         LET m == MapOf(t, q)
         IN  \A v \in Range(versions) :
                 (IsFilled(q, v, t) /\ ShareIn(m, v)[1] < 0) =>
                     /\ results[q][v][t] = <<0, 1>>
                     /\ CallsOf("price", t, q, v) = {}
    /\ ( /\ \A k \in 1..Len(calls) : calls[k].fn = "revenue" => RatGe0(calls[k].ret)
         /\ \A k \in 1..Len(calls) : calls[k].fn = "price" => RatGt0(calls[k].ret) )
       => \A q \in DOMAIN results : \A v \in DOMAIN results[q] :
              \A t \in 1..Len(results[q][v]) : RatGe0(results[q][v][t])

C10_Witness ==
    /\ Returned
    /\ n_samples = 2
    /\ \A k \in 1..Len(calls) : calls[k].fn = "revenue" => RatGe0(calls[k].ret)
    /\ NegativeShare(1, "Q1", "B")
    /\ RatGt0(ShareOf(2, "Q1", "B"))
    /\ results["Q1"]["B"][1] = <<0, 1>>
    /\ RatGt0(results["Q1"]["B"][2])

\* ------------------------------------------------------------ normalize_shares
\* largest raw weight passed to normalize_shares
MaxWeight == 3

\* the dicts passed as raw_shares: non-negative weights for any of three keys
RawShareMaps ==
    UNION {[K -> {Num(w) : w \in 0..MaxWeight}] : K \in SUBSET {"A", "B", "C"}}

\* the types the values of raw_shares are of
WeightTypes == {"float", "numpy.float64"}

Inf == <<1, 0>>

RECURSIVE SumOver(_, _)
SumOver(m, K) ==
    IF K = {} THEN Num(0)
    ELSE LET k == CHOOSE x \in K : TRUE
         IN  RatAdd(m[k], SumOver(m, K \ {k}))

\* (a variant of Total: the number of weights, not their sum)
TotalIsCount(m) == Num(Cardinality(DOMAIN m))

\* total = sum(raw_shares.values())
Total(m) == SumOver(m, DOMAIN m)

\* v / total raises ZeroDivisionError: a division of Python numbers by zero
\* (numpy.float64 yields nan or inf with a warning, and a dict without keys
\* is never divided)
Raises(m, total, type) == m # <<>> /\ total[1] = 0 /\ type = "float"

\* v / total, where it does not raise
Divide(v, total) ==
    IF total[1] # 0 THEN RatDiv(v, total)
    ELSE IF v[1] = 0 THEN NaN ELSE Inf

InitNormalize ==
    /\ raw_shares \in RawShareMaps
    /\ passed = raw_shares
    /\ weight_type \in WeightTypes
    /\ n_total = NaN
    /\ normalized = <<>>
    /\ npc = "called"
    /\ EngineIdle
    /\ SummIdle

\* total = sum(raw_shares.values())
SumWeights ==
    /\ npc = "called"
    /\ n_total' = Total(raw_shares)
    /\ npc' = "summed"
    /\ UNCHANGED <<raw_shares, passed, weight_type, normalized>>
    /\ UNCHANGED <<engineVars, summVars>>

\* return {k: v / total for k, v in raw_shares.items()}
ReturnNormalized ==
    /\ npc = "summed"
    /\ ~Raises(raw_shares, n_total, weight_type)
    /\ normalized' = [k \in DOMAIN raw_shares |-> Divide(raw_shares[k], n_total)]
    /\ npc' = "returned"
    /\ UNCHANGED <<raw_shares, passed, weight_type, n_total>>
    /\ UNCHANGED <<engineVars, summVars>>

\* the first v / total raises ZeroDivisionError
RaiseZeroDivision ==
    /\ npc = "summed"
    /\ Raises(raw_shares, n_total, weight_type)
    /\ npc' = "raised"
    /\ UNCHANGED <<raw_shares, passed, weight_type, n_total, normalized>>
    /\ UNCHANGED <<engineVars, summVars>>

NextNormalize ==
    \/ SumWeights
    \/ ReturnNormalized
    \/ RaiseZeroDivision

SpecNormalize == InitNormalize /\ [][NextNormalize]_vars

\* ------------------------------------------------------------ claims: normalize_shares
\* one weight at least is > 0
SomeWeightPositive == \E k \in DOMAIN passed : RatGt0(passed[k])

\* C7: for non-negative weights of which one at least is > 0, normalize_shares
\* returns a dict with the keys passed whose values are numbers in proportion
\* to the weights and sum to 1, so each is weight / sum(weights);
\* {A: 3, B: 1} gives {A: 3/4, B: 1/4}; the dict passed is not modified.
C7_NormalizedSumsToOne ==
    /\ raw_shares = passed
    /\ SomeWeightPositive => npc # "raised"
    /\ (npc = "returned" /\ SomeWeightPositive) =>
         /\ DOMAIN normalized = DOMAIN passed
         /\ \A k \in DOMAIN passed : IsNum(normalized[k]) /\ RatGe0(normalized[k])
         /\ \A a, b \in DOMAIN passed :
              RatMul(normalized[a], passed[b]) = RatMul(normalized[b], passed[a])
         /\ SumOver(normalized, DOMAIN normalized) = <<1, 1>>
    /\ (npc = "returned" /\ passed = [k \in {"A", "B"} |-> IF k = "A" THEN <<3, 1>> ELSE <<1, 1>>]) =>
         normalized = [k \in {"A", "B"} |-> IF k = "A" THEN <<3, 4>> ELSE <<1, 4>>]

C7_Witness ==
    /\ npc = "returned"
    /\ passed = [k \in {"A", "B"} |-> IF k = "A" THEN <<3, 1>> ELSE <<1, 1>>]
    /\ normalized = [k \in {"A", "B"} |-> IF k = "A" THEN <<3, 4>> ELSE <<1, 4>>]
    /\ raw_shares = passed

\* the dict passed holds weights and all are 0
AllWeightsZero == passed # <<>> /\ \A k \in DOMAIN passed : passed[k] = <<0, 1>>

\* C8: when the weights passed are all zero, so that they total 0,
\* normalize_shares ends in an error raised to the caller and returns no dict.
C8_ZeroTotalIsAnError ==
    (npc \in {"returned", "raised"} /\ AllWeightsZero) => npc = "raised"

\* ------------------------------------------------------------ summarize_quarterly_by_chip
\* the samples the lists of a results table hold (whole numbers of chips)
SampleVals == {-1000, 0, 2000}

\* the chip types of a results table
ChipLists == {<<"A", "B">>}

\* the results tables passed: what estimate_chip_sales returns for quarters qs,
\* versions cs and n >= 1 samples.  keys and chips are the dict's key order.
ResultTables ==
    UNION { { [keys |-> qs, chips |-> cs, at |-> f] :
                f \in [Range(qs) -> [Range(cs) -> [1..n -> SampleVals]]] } :
            <<qs, cs, n>> \in {x \in QuarterLists \X ChipLists \X (1..MaxSamples) :
                                  x[3] * Len(x[1]) <= MaxPairs} }

\* quarters = list(results.keys())
SQuarters == s_results.keys

\* chip_types = list(results[quarters[0]].keys())
ChipTypes == s_results.chips

\* n_samples = len(results[quarters[0]][chip_types[0]])
SNSamples == Len(s_results.at[SQuarters[1]][ChipTypes[1]])

\* np.zeros(n_samples)
Zeros(n) == [i \in 1..n |-> 0]

\* arr.sum()
RECURSIVE ArrSum(_)
ArrSum(arr) == IF arr = <<>> THEN 0 ELSE Head(arr) + ArrSum(Tail(arr))

\* (a variant of TotalAfter: only the arrays that are shown are added)
TotalAfterIfShown(tot, arr) ==
    IF ArrSum(arr) > 0 THEN [i \in 1..Len(tot) |-> tot[i] + arr[i]] ELSE tot

\* total += arr
TotalAfter(tot, arr) == [i \in 1..Len(tot) |-> tot[i] + arr[i]]

\* np.percentile(arr, p): linear interpolation between the order statistics
\* around the index p/100 * (n - 1)
Percentile(arr, p) ==
    LET sorted == SortSeq(arr, LAMBDA a, b : a < b)
        pos == p * (Len(arr) - 1)
        lo == (pos \div 100) + 1
        hi == IF lo < Len(arr) THEN lo + 1 ELSE lo
    IN  Rat(100 * sorted[lo] + (pos % 100) * (sorted[hi] - sorted[lo]), 100)

\* round(x): to the nearest integer, a tie to the even one
Round(x) ==
    LET q == x[1] \div x[2]
        r == x[1] % x[2]
    IN  IF 2 * r < x[2] THEN q
        ELSE IF 2 * r > x[2] THEN q + 1
        ELSE IF q % 2 = 0 THEN q ELSE q + 1

\* format_thousands(n): the k of f"{round(n / 1000)}k"
format_thousands(x) == Round(RatDiv(x, Num(1000)))

\* f"{p50} ({p5}-{p95})" of an array
Summary(arr) ==
    [shown |-> TRUE,
     p50 |-> format_thousands(Percentile(arr, 50)),
     p5 |-> format_thousands(Percentile(arr, 5)),
     p95 |-> format_thousands(Percentile(arr, 95))]

\* "-"
Dash == [shown |-> FALSE, p50 |-> 0, p5 |-> 0, p95 |-> 0]

\* row[chip_type] = ... : the cell of one chip type
Cell(arr) == IF ArrSum(arr) > 0 THEN Summary(arr) ELSE Dash

InitSummarize ==
    /\ s_results \in ResultTables
    /\ rows = <<>>
    /\ row = <<>>
    /\ s_total = <<>>
    /\ s_qi = 0
    /\ s_ci = 0
    /\ spc = "quarters"
    /\ EngineIdle
    /\ NormIdle

\* for quarter in quarters: row = {'Quarter': quarter}; total = np.zeros(n_samples)
StartRow ==
    /\ spc = "quarters"
    /\ s_qi < Len(SQuarters)
    /\ s_qi' = s_qi + 1
    /\ row' = [Quarter |-> SQuarters[s_qi + 1], cells |-> <<>>, Total |-> Dash]
    /\ s_total' = Zeros(SNSamples)
    /\ s_ci' = 0
    /\ spc' = "chips"
    /\ UNCHANGED <<s_results, rows>>
    /\ UNCHANGED <<engineVars, normVars>>

\* for chip_type in chip_types: total += arr; row[chip_type] = ...
AddChip ==
    /\ spc = "chips"
    /\ s_ci < Len(ChipTypes)
    /\ LET chip_type == ChipTypes[s_ci + 1]
           arr == s_results.at[row.Quarter][chip_type]
       IN  /\ s_total' = TotalAfter(s_total, arr)
           /\ row' = [row EXCEPT !.cells = (chip_type :> Cell(arr)) @@ @]
    /\ s_ci' = s_ci + 1
    /\ UNCHANGED <<s_results, rows, s_qi, spc>>
    /\ UNCHANGED <<engineVars, normVars>>

\* row['Total'] = ...; rows.append(row)
AddTotal ==
    /\ spc = "chips"
    /\ s_ci >= Len(ChipTypes)
    /\ row' = [row EXCEPT !.Total = Summary(s_total)]
    /\ rows' = Append(rows, row')
    /\ spc' = "quarters"
    /\ UNCHANGED <<s_results, s_total, s_qi, s_ci>>
    /\ UNCHANGED <<engineVars, normVars>>

\* return pd.DataFrame(rows)[cols]
ReturnFrame ==
    /\ spc = "quarters"
    /\ s_qi >= Len(SQuarters)
    /\ spc' = "returned"
    /\ UNCHANGED <<s_results, rows, row, s_total, s_qi, s_ci>>
    /\ UNCHANGED <<engineVars, normVars>>

NextSummarize ==
    \/ StartRow
    \/ AddChip
    \/ AddTotal
    \/ ReturnFrame

SpecSummarize == InitSummarize /\ [][NextSummarize]_vars

\* ------------------------------------------------------------ claims: summarize_quarterly_by_chip
\* the sum over the chip types cs of the samples of trial i in quarter q
RECURSIVE SumAt(_, _, _)
SumAt(q, cs, i) ==
    IF cs = <<>> THEN 0 ELSE s_results.at[q][Head(cs)][i] + SumAt(q, Tail(cs), i)

\* the array of those sums
SummedArray(q) == [i \in 1..SNSamples |-> SumAt(q, s_results.chips, i)]

\* C9: the Total of every row is the summary (the percentiles) of the array
\* whose entry i is the sum over all chip types of the quarter's entry i, the
\* chip types shown as "-" included; it is not the sum of the chip types'
\* own percentiles.
C9_TotalIsPercentileOfSum ==
    /\ Len(rows) <= Len(s_results.keys)
    /\ \A k \in 1..Len(rows) :
         /\ rows[k].Quarter = s_results.keys[k]
         /\ rows[k].Total.shown
         /\ rows[k].Total.p50 = format_thousands(Percentile(SummedArray(rows[k].Quarter), 50))
         /\ rows[k].Total.p5 = format_thousands(Percentile(SummedArray(rows[k].Quarter), 5))
         /\ rows[k].Total.p95 = format_thousands(Percentile(SummedArray(rows[k].Quarter), 95))
    /\ spc = "returned" => Len(rows) = Len(s_results.keys)

\* a row with a "-" cell whose samples are not all 0, and a row with both
\* cells shown whose Total is not the sum of the cells
C9_Witness ==
    /\ spc = "returned"
    /\ \E k \in 1..Len(rows) :
         /\ ~rows[k].cells["B"].shown
         /\ s_results.at[rows[k].Quarter]["B"] # Zeros(SNSamples)
         /\ rows[k].Total.p50 # rows[k].cells["A"].p50
    /\ \E k \in 1..Len(rows) :
         /\ rows[k].cells["A"].shown
         /\ rows[k].cells["B"].shown
         /\ rows[k].Total.p5 # rows[k].cells["A"].p5 + rows[k].cells["B"].p5

====
